---- MODULE Spec2Model ----
(***************************************************************************)
(* Model of the HCS ad generator (src/fbads.py): the menu loop of main,    *)
(* the three stages of generate_ad (ElevenLabs TTS, Wav2Lip lip-sync,      *)
(* moviepy slide composition) and the files they write under output/.      *)
(*                                                                         *)
(* A Python string is a sequence of tokens.  What the operator types is a  *)
(* sequence of single characters; a literal of the source is kept as one   *)
(* token (or, for an f-string, one token per part), so that strip, split   *)
(* and concatenation are computed the way Python computes them.            *)
(***************************************************************************)
EXTENDS Naturals, Sequences, FiniteSets

VARIABLES pc, caller, choice, run, req, supplied, resp, started, finished,
          spawned, failure, fs, writes, timeline

vars == <<pc, caller, choice, run, req, supplied, resp, started, finished,
          spawned, failure, fs, writes, timeline>>

(* ------------------------------ bounds -------------------------------- *)

MaxRuns == 3
MaxChoiceLen == 2
MaxTextLen == 1
MaxLineLen == 3
MaxBenefits == 2

(* ----------------------- configuration constants ---------------------- *)

OUTPUT_DIR == "output"
PHONE_NUMBER == <<"(561) 576-0801">>

ACA_TEMPLATE == <<"Hello! I'm excited to share ... get covered today!">>
FE_TEMPLATE == <<"Hi there! Looking for affordable ... future today!">>

ACA_BENEFITS ==
  << <<"$0 Health Plans - ACA Subsidies">>,
     <<"Dental, Vision & Prescriptions Included">>,
     <<"Fast 5-Minute Enrollment">> >>

FE_BENEFITS ==
  << <<"Guaranteed Issue - No Exam Required">>,
     <<"Rates Start at $20/Month">>,
     <<"Covers Burial & Funeral Costs">> >>

DEFAULT_BENEFITS ==
  << <<"Affordable Coverage Available">>,
     <<"Call Now: ", "(561) 576-0801">> >>

(* --------------------------- string helpers --------------------------- *)

SeqsUpTo(S, n) == UNION {[1..k -> S] : k \in 0..n}

IsSpace(c) == c = " "

RECURSIVE LStrip(_)
LStrip(s) ==
  IF s = <<>> THEN <<>>
  ELSE IF IsSpace(Head(s)) THEN LStrip(Tail(s)) ELSE s

RECURSIVE RStrip(_)
RStrip(s) ==
  IF s = <<>> THEN <<>>
  ELSE IF IsSpace(s[Len(s)]) THEN RStrip(SubSeq(s, 1, Len(s) - 1)) ELSE s

Strip(s) == RStrip(LStrip(s))

RECURSIVE SplitRec(_, _)
SplitRec(s, cur) ==
  IF s = <<>> THEN <<cur>>
  ELSE IF Head(s) = ","
       THEN <<cur>> \o SplitRec(Tail(s), <<>>)
       ELSE SplitRec(Tail(s), Append(cur, Head(s)))

Split(s) == SplitRec(s, <<>>)

RECURSIVE StripNonEmpty(_)
StripNonEmpty(bullets) ==
  IF bullets = <<>> THEN <<>>
  ELSE IF Strip(Head(bullets)) # <<>>
       THEN <<Strip(Head(bullets))>> \o StripNonEmpty(Tail(bullets))
       ELSE StripNonEmpty(Tail(bullets))

ParseBullets(line) == StripNonEmpty(Split(line))

CustomBenefitList_NoFallback(benefit_list) == benefit_list

CustomBenefitList(benefit_list) ==
  IF benefit_list = <<>> THEN DEFAULT_BENEFITS ELSE benefit_list

(* ------------------------------- paths -------------------------------- *)

ArtifactPath_SharedName(output_prefix, suffix) == <<OUTPUT_DIR, "/", suffix>>

ArtifactPath(output_prefix, suffix) ==
  <<OUTPUT_DIR, "/">> \o output_prefix \o <<suffix>>

AudioPath(output_prefix) == ArtifactPath(output_prefix, "_audio.wav")
LipVideoPath(output_prefix) == ArtifactPath(output_prefix, "_lip.mp4")
FinalOutput(output_prefix) == ArtifactPath(output_prefix, "_final.mp4")

(* ------------------------------- clips -------------------------------- *)

VideoFileClip(path) ==
  << [kind |-> "video", text |-> path, duration |-> 0,
      fontsize |-> 0, color |-> "none"] >>

TextClip(text, fontsize, color, duration) ==
  << [kind |-> "text", text |-> text, duration |-> duration,
      fontsize |-> fontsize, color |-> color] >>

RECURSIVE concatenate_videoclips(_)
concatenate_videoclips(clips) ==
  IF clips = <<>> THEN <<>>
  ELSE Head(clips) \o concatenate_videoclips(Tail(clips))

RECURSIVE BenefitClips(_)
BenefitClips(benefit_texts) ==
  IF benefit_texts = <<>> THEN <<>>
  ELSE <<TextClip(Head(benefit_texts), 48, "white", 3)>>
       \o BenefitClips(Tail(benefit_texts))

CtaClip(phone_number) == TextClip(<<"Call Now: ">> \o phone_number, 60, "yellow", 4)

create_benefit_slides_CtaFirst(video_clip, benefit_texts, phone_number) ==
  concatenate_videoclips(
    <<video_clip,
      concatenate_videoclips(<<CtaClip(phone_number)>> \o BenefitClips(benefit_texts))>>)

create_benefit_slides(video_clip, benefit_texts, phone_number) ==
  LET slide_clips == Append(BenefitClips(benefit_texts), CtaClip(phone_number))
      slides_concat == concatenate_videoclips(slide_clips)
  IN  concatenate_videoclips(<<video_clip, slides_concat>>)

(* --------------------------- external world --------------------------- *)

(* What the ElevenLabs endpoint may answer to one POST. *)
Responses ==
  { [status_code |-> 200, text |-> <<>>],
    [status_code |-> 401, text |-> <<"Unauthorized">>],
    [status_code |-> 500, text |-> <<"Internal Server Error">>] }

ExitCodes == {1, 2}

ChoiceChars == {"1", "2", "3", "4", "5", " "}
TextChars == {"h", " "}
LineChars == {"a", "b", ",", " "}

ChoiceLines == SeqsUpTo(ChoiceChars, MaxChoiceLen)
TextLines == SeqsUpTo(TextChars, MaxTextLen)
BulletLines == SeqsUpTo(LineChars, MaxLineLen)

(* What main holds after line 170, 178 and 181, for every line typed. *)
Choices == {Strip(line) : line \in ChoiceLines}
CustomTexts == {Strip(line) : line \in TextLines}
BenefitLists == {ParseBullets(line) : line \in BulletLines}

(* Arguments of a call of generate_ad made by an importing program. *)
DirectTexts == {<<>>, <<"Hello world">>}
DirectBenefits == SeqsUpTo({<<"A">>, <<"B">>}, MaxBenefits)
DirectPrefixes == {<<"t1">>, <<"custom_ad">>}

(* ------------------------------- state -------------------------------- *)

Stages == {"tts", "lip", "compose"}

NoCalls == [s \in Stages |-> 0]
NoReq == [text |-> <<>>, benefits |-> <<>>, prefix |-> <<>>]
NoResp == [status_code |-> 0, text |-> <<>>]
NoFailure == [type |-> "none", stage |-> "none", status |-> 0, message |-> <<>>]

Bump(f, s) == [f EXCEPT ![s] = @ + 1]

WriteFile(path) ==
  /\ fs' = [p \in DOMAIN fs \cup {path} |-> IF p = path THEN run ELSE fs[p]]
  /\ writes' = writes \cup {[path |-> path, run |-> run, prefix |-> req.prefix]}

NoWrite == UNCHANGED <<fs, writes>>

Raise_Caught(err) ==
  /\ failure' = err
  /\ pc' = IF caller = "main" THEN "menu" ELSE "returned"

Raise(err) ==
  /\ failure' = err
  /\ pc' = "crashed"

(* os.makedirs(OUTPUT_DIR, exist_ok=True): the folder is new and empty, or *)
(* it is the folder of an earlier session and still holds that session's  *)
(* files (written by run 0, none of this session's runs).                 *)
EmptyDir == [p \in {} |-> 0]

LeftoverDir ==
  [p \in {AudioPath(<<"custom_ad">>), LipVideoPath(<<"custom_ad">>),
          FinalOutput(<<"custom_ad">>)} |-> 0]

InitCommon ==
  /\ choice = <<>>
  /\ resp = NoResp
  /\ started = NoCalls
  /\ finished = NoCalls
  /\ spawned = 0
  /\ failure = NoFailure
  /\ fs \in {EmptyDir, LeftoverDir}
  /\ writes = {}
  /\ timeline = <<>>

Init ==
  /\ InitCommon
  /\ pc = "menu"
  /\ caller = "main"
  /\ run = 0
  /\ req = NoReq
  /\ supplied = <<>>

InitDirect ==
  /\ InitCommon
  /\ pc = "audio"
  /\ caller = "import"
  /\ run = 1
  /\ \E t \in DirectTexts, b \in DirectBenefits, p \in DirectPrefixes :
        /\ req = [text |-> t, benefits |-> b, prefix |-> p]
        /\ supplied = b

(* ------------------------------- main --------------------------------- *)

generate_ad(template_text, benefit_list, output_prefix) ==
  /\ run < MaxRuns
  /\ run' = run + 1
  /\ req' = [text |-> template_text, benefits |-> benefit_list,
             prefix |-> output_prefix]
  /\ resp' = NoResp
  /\ started' = NoCalls
  /\ finished' = NoCalls
  /\ spawned' = 0
  /\ timeline' = <<>>
  /\ pc' = "audio"
  /\ UNCHANGED <<caller, failure, fs, writes>>

MenuACA ==
  /\ pc = "menu"
  /\ \E c \in Choices :
        /\ c = <<"1">>
        /\ choice' = c
  /\ supplied' = ACA_BENEFITS
  /\ generate_ad(ACA_TEMPLATE, ACA_BENEFITS, <<"aca_ad">>)

MenuFE ==
  /\ pc = "menu"
  /\ \E c \in Choices :
        /\ c = <<"2">>
        /\ choice' = c
  /\ supplied' = FE_BENEFITS
  /\ generate_ad(FE_TEMPLATE, FE_BENEFITS, <<"fe_ad">>)

MenuCustom ==
  /\ pc = "menu"
  /\ \E c \in Choices :
        /\ c = <<"3">>
        /\ choice' = c
  /\ \E custom_text \in CustomTexts, benefit_list \in BenefitLists :
        /\ supplied' = benefit_list
        /\ generate_ad(custom_text, CustomBenefitList(benefit_list),
                       <<"custom_ad">>)

MenuExit ==
  /\ pc = "menu"
  /\ \E c \in Choices :
        /\ c = <<"4">>
        /\ choice' = c
  /\ pc' = "exited"
  /\ UNCHANGED <<caller, run, req, supplied, resp, started, finished,
                 spawned, failure, fs, writes, timeline>>

MenuInvalid ==
  /\ pc = "menu"
  /\ \E c \in Choices :
        /\ c \notin {<<"1">>, <<"2">>, <<"3">>, <<"4">>}
        /\ choice' = c
  /\ UNCHANGED <<pc, caller, run, req, supplied, resp, started, finished,
                 spawned, failure, fs, writes, timeline>>

(* --------------------------- generate_audio --------------------------- *)

GenerateAudioPost ==
  /\ pc = "audio"
  /\ started' = Bump(started, "tts")
  /\ \E r \in Responses : resp' = r
  /\ pc' = "audio_resp"
  /\ UNCHANGED <<caller, choice, run, req, supplied, finished, spawned,
                 failure, fs, writes, timeline>>

GenerateAudioSave ==
  /\ pc = "audio_resp"
  /\ resp.status_code = 200
  /\ WriteFile(AudioPath(req.prefix))
  /\ finished' = Bump(finished, "tts")
  /\ pc' = "lip"
  /\ UNCHANGED <<caller, choice, run, req, supplied, resp, started, spawned,
                 failure, timeline>>

TtsError ==
  [type |-> "RuntimeError", stage |-> "tts", status |-> resp.status_code,
   message |-> <<"ElevenLabs TTS failed: ", resp.status_code>> \o resp.text]

GenerateAudioRaise_Continues ==
  /\ pc = "audio_resp"
  /\ resp.status_code # 200
  /\ failure' = TtsError
  /\ pc' = "lip"
  /\ NoWrite
  /\ UNCHANGED <<caller, choice, run, req, supplied, resp, started, finished,
                 spawned, timeline>>

GenerateAudioRaise_Retries ==
  /\ pc = "audio_resp"
  /\ resp.status_code # 200
  /\ failure' = TtsError
  /\ pc' = "audio"
  /\ NoWrite
  /\ UNCHANGED <<caller, choice, run, req, supplied, resp, started, finished,
                 spawned, timeline>>

GenerateAudioRaise_OpensFirst ==
  /\ pc = "audio_resp"
  /\ resp.status_code # 200
  /\ Raise(TtsError)
  /\ WriteFile(AudioPath(req.prefix))
  /\ UNCHANGED <<caller, choice, run, req, supplied, resp, started, finished,
                 spawned, timeline>>

GenerateAudioRaise ==
  /\ pc = "audio_resp"
  /\ resp.status_code # 200
  /\ Raise(TtsError)
  /\ NoWrite
  /\ UNCHANGED <<caller, choice, run, req, supplied, resp, started, finished,
                 spawned, timeline>>

(* ---------------------- generate_lip_synced_video --------------------- *)

MissingCheckpoint ==
  [type |-> "FileNotFoundError", stage |-> "lip", status |-> 0,
   message |-> <<"Place wav2lip_gan.pth into Wav2Lip/checkpoints/ first.">>]

LipSyncMissingCheckpoint_SpawnsFirst ==
  /\ pc = "lip"
  /\ started' = Bump(started, "lip")
  /\ spawned' = spawned + 1
  /\ Raise(MissingCheckpoint)
  /\ NoWrite
  /\ UNCHANGED <<caller, choice, run, req, supplied, resp, finished, timeline>>

(* os.path.exists(checkpoint) is False *)
LipSyncMissingCheckpoint ==
  /\ pc = "lip"
  /\ started' = Bump(started, "lip")
  /\ Raise(MissingCheckpoint)
  /\ NoWrite
  /\ UNCHANGED <<caller, choice, run, req, supplied, resp, finished, spawned,
                 timeline>>

LipSyncSpawn_Background ==
  /\ pc = "lip"
  /\ started' = Bump(started, "lip")
  /\ spawned' = spawned + 1
  /\ pc' = "compose"
  /\ UNCHANGED <<caller, choice, run, req, supplied, resp, finished, failure,
                 fs, writes, timeline>>

(* os.path.exists(checkpoint) is True: subprocess.run starts inference.py *)
LipSyncSpawn ==
  /\ pc = "lip"
  /\ started' = Bump(started, "lip")
  /\ spawned' = spawned + 1
  /\ pc' = "lip_run"
  /\ UNCHANGED <<caller, choice, run, req, supplied, resp, finished, failure,
                 fs, writes, timeline>>

LipSyncExitOk ==
  /\ pc = "lip_run"
  /\ WriteFile(LipVideoPath(req.prefix))
  /\ finished' = Bump(finished, "lip")
  /\ pc' = "compose"
  /\ UNCHANGED <<caller, choice, run, req, supplied, resp, started, spawned,
                 failure, timeline>>

(* check=True: a non-zero exit raises CalledProcessError; the process may *)
(* have left an output file behind before it died.                        *)
LipSyncExitFail ==
  /\ pc = "lip_run"
  /\ \E code \in ExitCodes :
        Raise([type |-> "CalledProcessError", stage |-> "lip",
               status |-> code, message |-> <<>>])
  /\ \/ WriteFile(LipVideoPath(req.prefix))
     \/ NoWrite
  /\ UNCHANGED <<caller, choice, run, req, supplied, resp, started, finished,
                 spawned, timeline>>

(* ------------------------ create_benefit_slides ----------------------- *)

ComposeLoadFail ==
  /\ pc = "compose"
  /\ started' = Bump(started, "compose")
  /\ Raise([type |-> "OSError", stage |-> "compose", status |-> 0,
            message |-> LipVideoPath(req.prefix)])
  /\ NoWrite
  /\ UNCHANGED <<caller, choice, run, req, supplied, resp, finished, spawned,
                 timeline>>

ComposeSlides ==
  /\ pc = "compose"
  /\ LipVideoPath(req.prefix) \in DOMAIN fs
  /\ started' = Bump(started, "compose")
  /\ timeline' = create_benefit_slides(VideoFileClip(LipVideoPath(req.prefix)),
                                       req.benefits, PHONE_NUMBER)
  /\ pc' = "encode"
  /\ UNCHANGED <<caller, choice, run, req, supplied, resp, finished, spawned,
                 failure, fs, writes>>

WriteVideofileOk ==
  /\ pc = "encode"
  /\ WriteFile(FinalOutput(req.prefix))
  /\ finished' = Bump(finished, "compose")
  /\ pc' = "complete"
  /\ UNCHANGED <<caller, choice, run, req, supplied, resp, started, spawned,
                 failure, timeline>>

WriteVideofileFail ==
  /\ pc = "encode"
  /\ Raise([type |-> "EncodeError", stage |-> "compose", status |-> 0,
            message |-> FinalOutput(req.prefix)])
  /\ \/ WriteFile(FinalOutput(req.prefix))
     \/ NoWrite
  /\ UNCHANGED <<caller, choice, run, req, supplied, resp, started, finished,
                 spawned, timeline>>

(* generate_ad prints the completion line and returns to its caller. *)
AdComplete ==
  /\ pc = "complete"
  /\ pc' = IF caller = "main" THEN "menu" ELSE "returned"
  /\ req' = NoReq
  /\ supplied' = <<>>
  /\ resp' = NoResp
  /\ started' = NoCalls
  /\ finished' = NoCalls
  /\ spawned' = 0
  /\ timeline' = <<>>
  /\ UNCHANGED <<caller, choice, run, failure, fs, writes>>

Next ==
  \/ MenuACA
  \/ MenuFE
  \/ MenuCustom
  \/ MenuExit
  \/ MenuInvalid
  \/ GenerateAudioPost
  \/ GenerateAudioSave
  \/ GenerateAudioRaise
  \/ LipSyncMissingCheckpoint
  \/ LipSyncSpawn
  \/ LipSyncExitOk
  \/ LipSyncExitFail
  \/ ComposeLoadFail
  \/ ComposeSlides
  \/ WriteVideofileOk
  \/ WriteVideofileFail
  \/ AdComplete

Spec == Init /\ [][Next]_vars

(* The module run as a script (main) or imported and generate_ad called. *)
SpecAPI == (Init \/ InitDirect) /\ [][Next]_vars

TypeOK ==
  /\ pc \in {"menu", "audio", "audio_resp", "lip", "lip_run", "compose",
             "encode", "complete", "crashed", "exited", "returned"}
  /\ caller \in {"main", "import"}
  /\ run \in 0..MaxRuns
  /\ started \in [Stages -> Nat]
  /\ finished \in [Stages -> Nat]
  /\ spawned \in Nat

(* ------------------------------ claims -------------------------------- *)

WrittenByRun == {w.path : w \in {x \in writes : x.run = run}}

IsBenefitSlide(seg, text) ==
  seg = [kind |-> "text", text |-> text, duration |-> 3,
         fontsize |-> 48, color |-> "white"]

IsCtaSlide(seg) ==
  /\ seg.kind = "text"
  /\ seg.duration = 4
  /\ seg.fontsize = 60
  /\ seg.color = "yellow"

(* C1: within one run of generate_ad the lip-sync stage starts only after   *)
(* the TTS stage has succeeded, composition starts only after lip-sync has  *)
(* succeeded, Complete is reached only after all three stages succeeded,    *)
(* and at no time are two stages in progress.                               *)
C1_StageOrder ==
  /\ started["lip"] > 0 => finished["tts"] = 1
  /\ started["compose"] > 0 => finished["lip"] = 1
  /\ pc = "complete" => \A s \in Stages : started[s] = 1 /\ finished[s] = 1
  /\ Cardinality({s \in Stages : started[s] > finished[s]}) <= 1

C1_Witness ==
  /\ pc = "complete"
  /\ caller = "main"
  /\ run = 2

(* C2: once the TTS service has answered with a status other than 200, the  *)
(* run never invokes the lip-sync stage, the subprocess or the composition, *)
(* and writes no lip-sync or final file.                                    *)
C2_TtsFailureAborts ==
  (resp.status_code # 0 /\ resp.status_code # 200) =>
     /\ started["lip"] = 0
     /\ started["compose"] = 0
     /\ spawned = 0
     /\ timeline = <<>>
     /\ WrittenByRun = {}

C2_Witness ==
  /\ pc = "crashed"
  /\ failure.stage = "tts"
  /\ resp.status_code = 401

(* C3: when the checkpoint is absent, generate_lip_synced_video fails with  *)
(* FileNotFoundError without starting the subprocess, and the run writes    *)
(* neither a lip-sync file nor a final file.                                *)
C3_MissingCheckpointFailsFast ==
  failure.type = "FileNotFoundError" =>
     /\ pc = "crashed"
     /\ spawned = 0
     /\ started["compose"] = 0
     /\ WrittenByRun = {AudioPath(req.prefix)}

C3_Witness ==
  /\ failure.type = "FileNotFoundError"
  /\ run = 2
  /\ LipVideoPath(req.prefix) \in DOMAIN fs

(* C4: the timeline built by create_benefit_slides is the talking-head clip, *)
(* then one 3-second benefit slide per benefit text in the order given,     *)
(* then one 4-second CTA slide, which is last and occurs nowhere else.      *)
C4_TimelineOrder ==
  timeline # <<>> =>
     LET n == Len(req.benefits) IN
     /\ Len(timeline) = n + 2
     /\ timeline[1].kind = "video"
     /\ timeline[1].text = LipVideoPath(req.prefix)
     /\ \A i \in 1..n : IsBenefitSlide(timeline[i + 1], req.benefits[i])
     /\ IsCtaSlide(timeline[n + 2])
     /\ timeline[n + 2].text = <<"Call Now: ">> \o PHONE_NUMBER
     /\ \A i \in 1..(n + 1) : ~IsCtaSlide(timeline[i])

C4_Witness ==
  /\ pc = "complete"
  /\ Len(req.benefits) = 2
  /\ req.benefits[1] # req.benefits[2]
  /\ FinalOutput(req.prefix) \in WrittenByRun

C6_NoRetry ==
  /\ [](\A s \in Stages : started[s] <= 1)
  /\ [](spawned <= 1)
  /\ [](failure.type # "none" => pc = "crashed")
  /\ [][failure.type # "none" =>
          UNCHANGED <<run, started, finished, spawned, fs, writes>>]_vars

C6_Witness ==
  /\ pc = "crashed"
  /\ failure.type = "CalledProcessError"
  /\ started = [s \in Stages |-> IF s = "compose" THEN 0 ELSE 1]

C8_EmptyNarrationRejected ==
  (run > 0 /\ req # NoReq /\ req.text = <<>>) =>
     /\ pc # "complete"
     /\ FinalOutput(req.prefix) \notin WrittenByRun

(* C9: when the TTS answer is not 200, generate_audio raises an error       *)
(* carrying the status code and the service's message, and the step leaves  *)
(* every file as it was; the run has written no audio file.                 *)
C9_FailedSynthesisWritesNothing ==
  /\ [][(pc = "audio_resp" /\ resp.status_code # 200 /\ pc' # "audio_resp") =>
          /\ fs' = fs
          /\ writes' = writes
          /\ failure'.type = "RuntimeError"
          /\ failure'.status = resp.status_code
          /\ failure'.message =
               <<"ElevenLabs TTS failed: ", resp.status_code>> \o resp.text]_vars
  /\ [](failure.stage = "tts" => WrittenByRun = {})

C9_Witness ==
  /\ pc = "crashed"
  /\ failure.type = "RuntimeError"
  /\ failure.status = 500
  /\ AudioPath(req.prefix) \in DOMAIN fs

(* C10: a failure of a stage ends the menu loop and no later request is     *)
(* processed; otherwise the loop ends only on choice 4; an invalid choice   *)
(* starts no run and writes nothing.                                        *)
C10_MenuLoop ==
  /\ [][(failure.type = "none" /\ failure'.type # "none") => pc' = "crashed"]_vars
  /\ [][pc = "crashed" => (pc' = "crashed" /\ run' = run)]_vars
  /\ [][(pc # "exited" /\ pc' = "exited") =>
          (pc = "menu" /\ choice' = <<"4">>)]_vars
  /\ [][(pc # "crashed" /\ pc' = "crashed") => failure'.type # "none"]_vars
  /\ [][(pc = "menu" /\ choice' \notin {<<"1">>, <<"2">>, <<"3">>, <<"4">>}) =>
          (pc' = "menu" /\ run' = run /\ fs' = fs /\ writes' = writes)]_vars

C10_Witness ==
  /\ pc = "crashed"
  /\ caller = "main"
  /\ run = 2
  /\ choice = <<"2">>

====
